---- MODULE Spec2Model ----
(***************************************************************************)
(* A state-machine model of super_hydro/server/gpe.py: the State object    *)
(* (its constructor, step, set_xy0 and the tracer-particle subsystem).     *)
(*                                                                         *)
(* Numeric model.  Real numbers are exact rationals <<num, den>> (den > 0, *)
(* lowest terms); complex numbers are pairs <<re, im>> of rationals.  The  *)
(* transcendental operations of numpy are evaluated on a lattice:          *)
(*   - Exp(z) is taken in base (2, i): exp(zr + i*zi) is 2^Floor(zr) *     *)
(*     i^Floor(zi), so one unit of real exponent halves/doubles the        *)
(*     modulus and one unit of imaginary exponent is a quarter turn.  It   *)
(*     keeps exp(0) = 1, exp(a+b) = exp(a)*exp(b) on whole exponents, and  *)
(*     |exp(z)| = 1 exactly when the real part of the exponent is 0;       *)
(*   - Sqrt(q) is rounded down to a multiple of 1/SqrtRes;                 *)
(*   - 2*pi is the rational TwoPi.                                         *)
(* The wavefunction array self.data is stored as sqrt(r) * a, a an array   *)
(* of Gaussian integers and r a positive rational (a global scale commutes *)
(* with every linear operation of the engine), kept in a canonical form.   *)
(* Grid axes have 1 or 2 points, for which the discrete Fourier transform  *)
(* has entries +1 and -1 only.                                             *)
(***************************************************************************)
EXTENDS Integers, Sequences, FiniteSets, TLC

VARIABLES
    self,       \* the State object: a record of its attributes
    args,       \* the constructor's arguments that are read after line 153
    pc,         \* "ctor" | "loop" | "ctor_finish" | "sampling" | "idle"
    call,       \* the running step call: [N, n, ctor] (N asked, n passes done)
    particles,  \* the local list of tracer_part_create
    n_max,      \* the local n_max of tracer_part_create (0 before it runs)
    hist        \* history of the run (what the properties observe): the
                \* calls and passes made, the clock at the entry of the
                \* last call, the locals of the last pass, the object at
                \* the entry of the first call (base) and whether the target
                \* has stayed the same since (steady)

vars == <<self, args, pc, call, particles, n_max, hist>>

(***************************************************************************)
(* Bounds of the model.                                                    *)
(***************************************************************************)
MaxCooling == 1     \* cooling_steps ranges over 0..MaxCooling
MaxN == 2           \* step(N) is called with N in 0..MaxN
MaxCalls == 2       \* step calls after construction
MaxTracers == 2     \* N_tracer_particles ranges over 1..MaxTracers

(***************************************************************************)
(* Rational arithmetic.                                                    *)
(***************************************************************************)
AbsInt(n) == IF n < 0 THEN -n ELSE n

RECURSIVE Gcd(_, _)
Gcd(a, b) == IF b = 0 THEN a ELSE Gcd(b, a % b)

Rat(n, d) ==
    LET s == IF d < 0 THEN -1 ELSE 1
        k == Gcd(AbsInt(n), AbsInt(d))
    IN  <<(s * n) \div k, (s * d) \div k>>

Num(n) == <<n, 1>>
QAdd(p, q) == Rat(p[1] * q[2] + q[1] * p[2], p[2] * q[2])
QNeg(p) == <<-p[1], p[2]>>
QSub(p, q) == QAdd(p, QNeg(q))
QMul(p, q) == Rat(p[1] * q[1], p[2] * q[2])
QDiv(p, q) == Rat(p[1] * q[2], p[2] * q[1])
QLt(p, q) == p[1] * q[2] < q[1] * p[2]
QLe(p, q) == p[1] * q[2] <= q[1] * p[2]
QFloor(p) == p[1] \div p[2]

\* Python's float % for a positive divisor: the result lies in [0, L).
QMod(p, L) == QSub(p, QMul(Num(QFloor(QDiv(p, L))), L))

\* numpy.round: to the nearest integer, a tie to the even one.
QRound(p) ==
    LET f == QFloor(p)
        twice == QSub(QMul(Num(2), p), Num(2 * f))   \* 2 * fractional part
    IN  IF QLt(twice, Num(1)) THEN f
        ELSE IF QLt(Num(1), twice) THEN f + 1
        ELSE IF f % 2 = 0 THEN f ELSE f + 1

RECURSIVE ISqrtIn(_, _, _)
ISqrtIn(n, lo, hi) ==
    IF lo = hi THEN lo
    ELSE LET mid == (lo + hi + 1) \div 2
         IN  IF mid * mid <= n THEN ISqrtIn(n, mid, hi) ELSE ISqrtIn(n, lo, mid - 1)

\* The integer square root, below 2^15 so that mid * mid stays in range.
ISqrt(n) == ISqrtIn(n, 0, IF n < 32767 THEN n ELSE 32767)

\* numpy.sqrt of a non-negative rational, rounded down to a multiple of
\* 1/SqrtRes; it is exact on the squares of those multiples.
SqrtRes == 4
Sqrt(q) == Rat(ISqrt(QFloor(QMul(q, Num(SqrtRes * SqrtRes)))), SqrtRes)

RECURSIVE Pow2(_)
Pow2(k) == IF k = 0 THEN 1 ELSE 2 * Pow2(k - 1)

(***************************************************************************)
(* Complex numbers <<re, im>> over the rationals, and NaN (denominators 0) *)
(* for a non-finite value (nan, inf), which every operation propagates.    *)
(***************************************************************************)
NaN == <<<<0, 0>>, <<0, 0>>>>
Cx(x, y) == <<x, y>>
CZero == Cx(Num(0), Num(0))
CAdd(z, w) == IF z = NaN \/ w = NaN THEN NaN ELSE Cx(QAdd(z[1], w[1]), QAdd(z[2], w[2]))
CSub(z, w) == Cx(QSub(z[1], w[1]), QSub(z[2], w[2]))
CScale(q, z) == IF z = NaN THEN NaN ELSE Cx(QMul(q, z[1]), QMul(q, z[2]))
CAbs2(z) == QAdd(QMul(z[1], z[1]), QMul(z[2], z[2]))
\* abs(z) of a complex number.
CAbs(z) == Sqrt(CAbs2(z))

\* Gaussian integers <<x, y>> = x + i*y, the entries of the array a.
GAdd(u, w) == <<u[1] + w[1], u[2] + w[2]>>
GScale(k, u) == <<k * u[1], k * u[2]>>
GAbs2(u) == u[1] * u[1] + u[2] * u[2]
\* u * i^k
GTurn(u, k) ==
    CASE k % 4 = 0 -> u
      [] k % 4 = 1 -> <<-u[2], u[1]>>
      [] k % 4 = 2 -> <<-u[1], -u[2]>>
      [] k % 4 = 3 -> <<u[2], -u[1]>>

\* A numpy array holds its elements by value: the function f with every
\* element evaluated, once.
ndarray(f) == IF f = f THEN f ELSE f

RECURSIVE SumInt(_, _)
SumInt(f, S) ==
    IF S = {} THEN 0
    ELSE LET c == CHOOSE c \in S : TRUE IN f[c] + SumInt(f, S \ {c})

RECURSIVE SumQ(_, _)
SumQ(f, S) ==
    IF S = {} THEN Num(0)
    ELSE LET c == CHOOSE c \in S : TRUE IN QAdd(f[c], SumQ(f, S \ {c}))

RECURSIVE SumG(_, _)
SumG(f, S) ==
    IF S = {} THEN <<0, 0>>
    ELSE LET c == CHOOSE c \in S : TRUE IN GAdd(f[c], SumG(f, S \ {c}))

RECURSIVE GcdOver(_, _)
GcdOver(f, S) ==
    IF S = {} THEN 0
    ELSE LET c == CHOOSE c \in S : TRUE
         IN  Gcd(Gcd(AbsInt(f[c][1]), AbsInt(f[c][2])), GcdOver(f, S \ {c}))

\* f.max() of an array of rationals
MaxQ(f, S) == CHOOSE x \in {f[c] : c \in S} : \A c \in S : QLe(f[c], x)

RECURSIVE MinInt(_, _)
MinInt(f, S) ==
    LET c == CHOOSE c \in S : TRUE
    IN  IF S = {c} THEN f[c]
        ELSE LET r == MinInt(f, S \ {c}) IN IF f[c] < r THEN f[c] ELSE r

\* numpy.exp on the lattice: exp(zr + i*zi) = 2^s * i^k with s = Floor(zr)
\* and k = Floor(zi) mod 4.
Exp(z) == [s |-> QFloor(z[1]), k |-> QFloor(z[2]) % 4]

\* 2^s as a rational.
Exp2(s) == IF s >= 0 THEN Num(Pow2(s)) ELSE Rat(1, Pow2(-s))

(***************************************************************************)
(* The wavefunction array: [a |-> array of Gaussian integers, r |-> scale] *)
(* stands for sqrt(r) * a.  Canon divides a by the gcd of its entries and  *)
(* moves the factor into r, so that equal arrays have equal records.       *)
(***************************************************************************)
Canon(a, r) ==
    LET k == GcdOver(a, DOMAIN a)
    IN  IF k = 0 THEN [a |-> a, r |-> Num(0)]
        ELSE [a |-> ndarray([c \in DOMAIN a |-> <<a[c][1] \div k, a[c][2] \div k>>]),
              r |-> QMul(r, Num(k * k))]

Cells(Nxy) == (0 .. Nxy[1] - 1) \X (0 .. Nxy[2] - 1)

\* The N-th root of unity to the power e, for N in {1, 2}.
Omega(N, e) == IF N = 2 /\ e % 2 = 1 THEN -1 ELSE 1

\* self.fft = np.fft.fftn, on the array a (unnormalised); the inverse
\* transform has the same entries for these sizes and divides by Nx*Ny.
fft(a, Nxy) ==
    ndarray([j \in Cells(Nxy) |->
        SumG([c \in Cells(Nxy) |->
                 GScale(Omega(Nxy[1], j[1] * c[1]) * Omega(Nxy[2], j[2] * c[2]), a[c])],
             Cells(Nxy))])

(***************************************************************************)
(* Program constants.                                                      *)
(***************************************************************************)
g == 1              \* g = hbar = m = 1.0
hbar == 1
m == 1
TwoPi == 6          \* 2*np.pi, as a rational
pot_k_m == 10       \* self.pot_k_m = 10.0
pot_damp == 4       \* self.pot_damp = 4.0
t_cooling == -10000 \* self.t = -10000, the clock the cooling starts from
test_radius == 3    \* the radius 3.0 of the test-mode trajectory
test_period == 5    \* its period: exp(1j*self.t/5)

(***************************************************************************)
(* Grid and spectral operator (State.__init__, lines 96-121).              *)
(***************************************************************************)
\* np.fft.fftfreq(n, d)
fftfreq(n, d) ==
    [j \in 0 .. n - 1 |->
        QDiv(Num(IF j <= (n - 1) \div 2 THEN j ELSE j - n), QMul(Num(n), d))]

\* x = np.arange(N)*dx - L/2
arange_x(N, dx, L) == [i \in 0 .. N - 1 |-> QSub(QMul(Num(i), dx), QDiv(L, Num(2)))]

\* kx = 2*np.pi * np.fft.fftfreq(N, dx)
wavenumbers(N, dx) == [j \in 0 .. N - 1 |-> QMul(Num(TwoPi), fftfreq(N, dx)[j])]

\* self.K = hbar**2*(kx2 + ky**2)/2.0/self.m, with kx2 = kx**2 (soc = False)
kinetic(Nxy, kxy) ==
    [j \in Cells(Nxy) |->
        QDiv(QMul(Num(hbar * hbar),
                  QAdd(QMul(kxy[1][j[1]], kxy[1][j[1]]), QMul(kxy[2][j[2]], kxy[2][j[2]]))),
             Num(2 * m))]

\* the property t_scale: self.hbar/self.K.max()
t_scale(s) == QDiv(Num(s.hbar), MaxQ(s.K, DOMAIN s.K))

\* the property _phase: -1j/self.hbar/self.cooling_phase
_phase(s) ==
    LET a == s.cooling_phase[1]
        b == s.cooling_phase[2]
        d == QMul(QAdd(QMul(a, a), QMul(b, b)), Num(s.hbar))
    IN  Cx(QDiv(QNeg(b), d), QDiv(QNeg(a), d))

\* get_density: (y.conj()*y).real
get_density(s) ==
    ndarray([c \in DOMAIN s.data.a |-> QMul(s.data.r, Num(GAbs2(s.data.a[c])))])

\* density.sum()
total(density) == SumQ(density, DOMAIN density)

\* get_v_max: 1.0*np.sqrt(self.g*density.mean()/self.m)
get_v_max(s, density) ==
    Sqrt(QDiv(QMul(Num(s.g), QDiv(total(density), Num(Cardinality(DOMAIN density)))),
              Num(s.m)))

\* the property z_finger
z_finger(s) ==
    IF s.test_finger
    THEN IF QLe(Num(0), s.t)
         THEN LET e == Exp(Cx(Num(0), QDiv(s.t, Num(test_period))))
                  u == GTurn(<<test_radius, 0>>, e.k)
              IN  Cx(Num(u[1]), Num(u[2]))
         ELSE Cx(Num(test_radius), Num(0))
    ELSE s._z_finger

\* get_V_trap: 0 when cylinder is False
get_V_trap(cylinder) == Num(0)

\* mod: make sure the point z lies in the box
wrap(x, L) == QSub(QMod(QAdd(x, QDiv(L, Num(2))), L), QDiv(L, Num(2)))
\* mod with the wrap left out: the point as it was given.
mod_unwrapped(s, z) == z

mod(s, z) == Cx(wrap(z[1], s.Lxy[1]), wrap(z[2], s.Lxy[2]))

\* get_Vext: the full external potential, as an array over the grid
get_Vext(s) ==
    ndarray([c \in Cells(s.Nxy) |->
        LET x == wrap(QSub(s.xy[1][c[1]], s.pot_z[1]), s.Lxy[1])
            y == wrap(QSub(s.xy[2][c[2]], s.pot_z[2]), s.Lxy[2])
            r2 == QAdd(QMul(x, x), QMul(y, y))
            e == Exp(Cx(QDiv(QDiv(QNeg(r2), Num(2)), QMul(s.r0, s.r0)), Num(0)))
        IN  QAdd(s._V_trap, QMul(QMul(s.V0_mu, s.mu), Exp2(e.s)))])

(***************************************************************************)
(* The propagators.                                                        *)
(***************************************************************************)
\* The array a times the factors 2^e[c].s * i^e[c].k, as a canonical record
\* with the common power of two moved into the scale r.
times_exp(a, r, e) ==
    LET smin == MinInt([c \in DOMAIN a |-> e[c].s], DOMAIN a)
        b == ndarray([c \in DOMAIN a |->
                         GScale(Pow2(e[c].s - smin), GTurn(a[c], e[c].k))])
    IN  [a |-> b, r |-> QMul(r, QMul(Exp2(smin), Exp2(smin)))]

\* apply_expK: data = ifft(exp(_phase*dt*K*factor) * fft(y)).  The factors
\* of the exponential, over the momentum grid ...
expK_factors(s, dt, factor) ==
    ndarray([j \in Cells(s.Nxy) |->
                Exp(CScale(QMul(QMul(dt, s.K[j]), factor), _phase(s)))])

\* ... and the inverse transform of the product w, stored in self.data.
expK_store(s, w) ==
    [s EXCEPT !.data = Canon(fft(w.a, s.Nxy),
                             QDiv(w.r, Num((s.Nxy[1] * s.Nxy[2]) * (s.Nxy[1] * s.Nxy[2]))))]

apply_expK(s, dt, factor) ==
    expK_store(s, times_exp(fft(s.data.a, s.Nxy), s.data.r, expK_factors(s, dt, factor)))

\* apply_expV: V = self.get_Vext() + self.g*n - self.mu, n the density
\* passed in ...
potential(s, Vext, density) ==
    ndarray([c \in Cells(s.Nxy) |->
                QSub(QAdd(Vext[c], QMul(Num(s.g), density[c])), s.mu)])

\* ... data = exp(_phase*dt*V*factor) * y ...
expV_factors(s, dt, factor, V) ==
    ndarray([c \in Cells(s.Nxy) |->
                Exp(CScale(QMul(QMul(dt, V[c]), factor), _phase(s)))])

\* ... and data *= np.sqrt(self._N/n.sum()), with that same density n.
expV_store(s, density, w) ==
    [s EXCEPT !.data = Canon(w.a, QMul(w.r, QDiv(s._N, total(density))))]

apply_expV(s, dt, factor, density) ==
    expV_store(s, density,
               times_exp(s.data.a, s.data.r,
                         expV_factors(s, dt, factor,
                                      potential(s, get_Vext(s), density))))

(***************************************************************************)
(* Tracer particles.                                                       *)
(***************************************************************************)
\* One axis of the velocity field: (ifft(p*fft(data)) / data / m).real at
\* cell c, F being fft(data) and p the momenta of that axis (axis = 1 for x,
\* 2 for y).
velocity_axis(s, F, p, axis, c) ==
    LET n == s.Nxy[1] * s.Nxy[2]
        w(j) == Omega(s.Nxy[1], j[1] * c[1]) * Omega(s.Nxy[2], j[2] * c[2])
        Gre == SumQ([j \in Cells(s.Nxy) |-> QMul(p[j[axis]], Num(w(j) * F[j][1]))],
                    Cells(s.Nxy))
        Gim == SumQ([j \in Cells(s.Nxy) |-> QMul(p[j[axis]], Num(w(j) * F[j][2]))],
                    Cells(s.Nxy))
        a == s.data.a[c]
    IN  QDiv(QAdd(QMul(Gre, Num(a[1])), QMul(Gim, Num(a[2]))),
             Num(n * GAbs2(a) * s.m))

\* The scaling of the momenta by a factor that is not 1.
scaled_twice(k, h) == ndarray([j \in DOMAIN k |-> QMul(k[j], Num(h + 1))])

\* px *= self.hbar (and py): the momenta of one axis, scaled.
scaled(k, h) == ndarray([j \in DOMAIN k |-> QMul(k[j], Num(h))])

\* The velocity field from the scaled momenta and F = fft(data); the division
\* by data is non-finite where data is 0.
tracer_velocity(s, px, py, F) ==
    [s EXCEPT !.kxy = <<px, py>>,
              !.has_v_trace = TRUE,
              !.v_trace =
                  ndarray([c \in Cells(s.Nxy) |->
                      IF s.data.a[c] = <<0, 0>> THEN NaN
                      ELSE Cx(velocity_axis(s, F, px, 1, c),
                              velocity_axis(s, F, py, 2, c))])]

\* update_tracer_velocity: px and py are self.kxy itself, scaled in place.
update_tracer_velocity(s) ==
    tracer_velocity(s, scaled(s.kxy[1], s.hbar), scaled(s.kxy[2], s.hbar),
                    fft(s.data.a, s.Nxy))

\* get_inds, for one position: the indices (ix, iy) of the nearest grid point.
\* astype(int) of a non-finite value is the smallest int64 or 0, depending on
\* the build: either is 0 modulo the axis sizes 1 and 2.
get_inds(s, pos) ==
    LET Nx == s.Nxy[1]
        Ny == s.Nxy[2]
        Lx == s.Lxy[1]
        Ly == s.Lxy[2]
    IN  IF pos = NaN THEN <<0, 0>>
        ELSE LET re == QAdd(pos[1], QDiv(Lx, Num(2)))
                 im == QAdd(pos[2], QDiv(Ly, Num(2)))
             IN  <<QRound(QMul(QDiv(re, Lx), Num(Nx))) % Nx,
                   QRound(QMul(QDiv(im, Ly), Num(Ny))) % Nx>>

tracer_inds(s) == ndarray([p \in DOMAIN s._par_pos |-> get_inds(s, s._par_pos[p])])

\* An advance that loses the last particle of the array.
tracer_advance_dropping(s, dt, inds) ==
    [s EXCEPT !._par_pos =
        ndarray([p \in 1 .. Len(s._par_pos) - 1 |->
                    CAdd(s._par_pos[p], CScale(dt, s.v_trace[inds[p]]))])]

\* pos += dt*v, v the velocity field at each particle's cell
tracer_advance(s, dt, inds) ==
    [s EXCEPT !._par_pos =
        ndarray([p \in DOMAIN s._par_pos |->
                    CAdd(s._par_pos[p], CScale(dt, s.v_trace[inds[p]]))])]

\* update_tracer_pos: nothing without _par_pos; the velocity field is
\* computed first if there is none.
tracer_ready(s) == IF s.has_v_trace THEN s ELSE update_tracer_velocity(s)

update_tracer_pos(s, dt) ==
    IF ~s.has_par_pos THEN s
    ELSE tracer_advance(tracer_ready(s), dt, tracer_inds(tracer_ready(s)))

(***************************************************************************)
(* The finger potential (State.step, lines 339-346).                       *)
(***************************************************************************)
\* pot_z += dt*pot_v; pot_a = -pot_k_m*(pot_z - z_finger) - pot_damp*pot_v;
\* pot_v += dt*pot_a: the position and the velocity before clamp and wrap.
finger_advance(s, dt) ==
    LET z == CAdd(s.pot_z, CScale(dt, s.pot_v))
        a == CAdd(CScale(Num(-s.pot_k_m), CSub(z, z_finger(s))),
                  CScale(Num(-s.pot_damp), s.pot_v))
    IN  [pot_z |-> z, pot_v |-> CAdd(s.pot_v, CScale(dt, a))]

\* The velocity left as it is, whatever the bound.
clamp_missing(v, v_max) == v

\* if abs(pot_v) > v_max: pot_v *= v_max/abs(pot_v)
clamp(v, v_max) ==
    IF QLt(v_max, CAbs(v)) THEN CScale(QDiv(v_max, CAbs(v)), v) ELSE v

(***************************************************************************)
(* State.step, in three parts: entry, one pass of the loop, exit.          *)
(***************************************************************************)
half == Rat(1, 2)

\* An entry that advances the clock by a whole dt.
step_enter_whole(s) ==
    [apply_expK(s, s.dt, half) EXCEPT !.t = QAdd(s.t, s.dt)]

\* apply_expK(dt, factor=0.5); t += dt/2.0
step_enter(s) ==
    [apply_expK(s, s.dt, half) EXCEPT !.t = QAdd(s.t, QDiv(s.dt, Num(2)))]

\* One pass of the loop body, from its last statement back to its first: the
\* object after the pass, with the values of the local variables (pos and
\* inds are those update_tracer_pos started from).
pass_record(s, f, v_max, s2, s3) ==
    [self |-> [s3 EXCEPT !.t = QAdd(s3.t, s.dt)],
     z_raw |-> f.pot_z, v_raw |-> f.pot_v, v_max |-> v_max, vext_z |-> s2.pot_z,
     pos |-> IF s.has_par_pos THEN s._par_pos ELSE <<>>,
     inds |-> IF s.has_par_pos THEN tracer_inds(s) ELSE <<>>]

\* apply_expV(dt=dt, factor=1.0, density=density); apply_expK(dt=dt, factor=1.0)
pass_evolve(s, density, f, v_max, s2) ==
    pass_record(s, f, v_max, s2,
                apply_expK(apply_expV(s2, s.dt, Num(1), density), s.dt, Num(1)))

\* the clamp of pot_v and pot_z = mod(pot_z)
pass_clamp(s, s1, density, f, v_max) ==
    pass_evolve(s, density, f, v_max,
                [s1 EXCEPT !.pot_v = clamp(f.pot_v, v_max),
                           !.pot_z = mod(s1, f.pot_z)])

\* the finger's position and velocity; v_max = self.get_v_max(density)
pass_finger(s, s1, density) ==
    pass_clamp(s, s1, density, finger_advance(s1, s.dt), get_v_max(s1, density))

\* density = self.get_density()
pass_density(s, s1) == pass_finger(s, s1, get_density(s1))

\* update_tracer_velocity(); update_tracer_pos(dt)
step_pass(s) == pass_density(s, update_tracer_pos(update_tracer_velocity(s), s.dt))

step_body(s) == step_pass(s).self

\* An exit without the trailing half-step: the clock alone goes back.
step_exit_clock(s) == [s EXCEPT !.t = QSub(s.t, QDiv(s.dt, Num(2)))]

\* apply_expK(dt, factor=-0.5); t -= dt/2.0
step_exit(s) ==
    [apply_expK(s, s.dt, QNeg(half)) EXCEPT !.t = QSub(s.t, QDiv(s.dt, Num(2)))]

\* step(N) as a whole.  Each statement of step works on the object as the
\* statement before it left it: by_value(s) is TRUE, and has s evaluated.
by_value(s) == s = s

RECURSIVE step_loop(_, _)
step_next(s, k) == IF by_value(s) THEN step_loop(s, k - 1) ELSE s
step_loop(s, k) == IF k = 0 THEN s ELSE step_next(step_body(s), k)

step(s, N) ==
    IF by_value(s) THEN step_exit(step_next(step_enter(s), N + 1)) ELSE s

(***************************************************************************)
(* State.__init__ up to the call self.step(cooling_steps) (lines 90-153).  *)
(***************************************************************************)
construct(Nxy, dx, healing_length, r0, V0_mu, dt_t_scale, test_finger, N_tracer_particles) ==
    LET Lxy == <<QMul(Num(Nxy[1]), dx), QMul(Num(Nxy[2]), dx)>>
        kxy == <<wavenumbers(Nxy[1], dx), wavenumbers(Nxy[2], dx)>>
        n0 == QDiv(QDiv(QDiv(Num(hbar * hbar), Num(2)),
                        QMul(healing_length, healing_length)), Num(g))
        data == Canon([c \in Cells(Nxy) |-> <<1, 0>>], n0)
        s0 == [g |-> g, hbar |-> hbar, m |-> m, r0 |-> r0, V0_mu |-> V0_mu,
               Nxy |-> Nxy, dx |-> dx, Lxy |-> Lxy,
               healing_length |-> healing_length,
               cooling_phase |-> Cx(Num(0), Num(1)),
               xy |-> <<arange_x(Nxy[1], dx, Lxy[1]), arange_x(Nxy[2], dx, Lxy[2])>>,
               N_tracer_particles |-> N_tracer_particles,
               kxy |-> kxy,
               K |-> kinetic(Nxy, kxy),
               n0 |-> n0, mu |-> QMul(Num(g), n0),
               data |-> data,
               cylinder |-> FALSE, _V_trap |-> get_V_trap(FALSE),
               _N |-> total([c \in Cells(Nxy) |-> QMul(data.r, Num(GAbs2(data.a[c])))]),
               test_finger |-> test_finger,
               _z_finger |-> CZero,
               pot_k_m |-> pot_k_m, pot_z |-> CZero, pot_v |-> CZero,
               pot_damp |-> pot_damp,
               t |-> Num(t_cooling), dt |-> Num(0),
               has_v_trace |-> FALSE, v_trace |-> [c \in Cells(Nxy) |-> CZero],
               has_par_pos |-> FALSE, _par_pos |-> <<>>]
    IN  [s0 EXCEPT !.dt = QMul(dt_t_scale, t_scale(s0))]

(***************************************************************************)
(* The inputs of the model.                                                *)
(***************************************************************************)
Shapes == {<<2, 1>>, <<1, 2>>, <<2, 2>>}            \* Nxy
CoolingPhases == {Cx(Num(1), Num(0)), Cx(Num(-1), Num(0))}  \* cooling_phase: 1.0, -1.0
Targets == {<<Num(1), Num(0)>>, <<Num(0), Num(-2)>>}  \* set_xy0
Uniforms == {Num(0), Rat(1, 2)}                     \* np.random.random()
\* dx, healing_length, r0, V0_mu, dt_t_scale: with these every kinetic
\* exponent _phase*dt*K*factor is a whole number of lattice units, dt is a
\* whole number, and the finger potential differs from cell to cell.
Fixed == [dx |-> Rat(3, 2), healing_length |-> Num(1), r0 |-> Num(1),
          V0_mu |-> Num(4), dt_t_scale |-> Num(4)]

NoPass == [ran |-> FALSE, z_raw |-> CZero, v_raw |-> CZero, v_max |-> Num(0),
           vext_z |-> CZero, pos |-> <<>>, inds |-> <<>>]

Init ==
    \E Nxy \in Shapes, cp \in CoolingPhases, cs \in 0 .. MaxCooling,
       nt \in 1 .. MaxTracers, tf \in {FALSE} :
        /\ self = construct(Nxy, Fixed.dx, Fixed.healing_length, Fixed.r0,
                            Fixed.V0_mu, Fixed.dt_t_scale, tf, nt)
        /\ args = [cooling_phase |-> cp, cooling_steps |-> cs,
                   dt_t_scale |-> Fixed.dt_t_scale]
        /\ pc = "ctor"
        /\ call = [N |-> 0, n |-> 0, ctor |-> TRUE]
        /\ particles = <<>>
        /\ n_max = Num(0)
        /\ hist = [calls |-> 0, nsub |-> 0, ncool |-> 0, entry_t |-> Num(t_cooling),
                   pass |-> NoPass, steady |-> TRUE,
                   base |-> construct(Nxy, Fixed.dx, Fixed.healing_length, Fixed.r0,
                                      Fixed.V0_mu, Fixed.dt_t_scale, tf, nt)]

\* The entry of step(N): from the constructor (line 154) ...
CoolingCall ==
    /\ pc = "ctor"
    /\ self' = step_enter(self)
    /\ call' = [N |-> args.cooling_steps, n |-> 0, ctor |-> TRUE]
    /\ pc' = "loop"
    /\ hist' = [hist EXCEPT !.entry_t = self.t]
    /\ UNCHANGED <<args, particles, n_max>>

\* ... and from the server loop.
StepCall(N) ==
    /\ pc = "idle"
    /\ hist.calls < MaxCalls
    /\ self' = step_enter(self)
    /\ call' = [N |-> N, n |-> 0, ctor |-> FALSE]
    /\ pc' = "loop"
    /\ hist' = [hist EXCEPT !.entry_t = self.t, !.calls = @ + 1,
                            !.base = IF hist.calls = 0 THEN self ELSE @]
    /\ UNCHANGED <<args, particles, n_max>>

\* One pass of the loop of step: r is what the pass computes.
SubStepTo(r) ==
    /\ self' = r.self
    /\ hist' = [hist EXCEPT !.pass = [ran |-> TRUE, z_raw |-> r.z_raw, v_raw |-> r.v_raw,
                                      v_max |-> r.v_max, vext_z |-> r.vext_z,
                                      pos |-> r.pos, inds |-> r.inds],
                            !.nsub = IF call.ctor THEN @ ELSE @ + 1,
                            !.ncool = IF call.ctor THEN @ + 1 ELSE @]

SubStep ==
    /\ pc = "loop"
    /\ call.n < call.N
    /\ SubStepTo(step_pass(self))
    /\ call' = [call EXCEPT !.n = @ + 1]
    /\ UNCHANGED <<args, pc, particles, n_max>>

\* The exit of step.
StepReturn ==
    /\ pc = "loop"
    /\ call.n = call.N
    /\ self' = step_exit(self)
    /\ pc' = IF call.ctor THEN "ctor_finish" ELSE "idle"
    /\ UNCHANGED <<args, call, particles, n_max, hist>>

\* A constructor that leaves the cooling_phase of the cooling in place.
CtorFinish_cooling ==
    /\ pc = "ctor_finish"
    /\ self' = [self EXCEPT !.t = Num(0),
                            !.dt = QMul(args.dt_t_scale, t_scale(self))]
    /\ particles' = <<>>
    /\ n_max' = MaxQ(get_density(self), Cells(self.Nxy))
    /\ pc' = "sampling"
    /\ UNCHANGED <<args, call, hist>>

\* State.__init__ after the cooling (lines 155-162), up to the loop of
\* tracer_part_create.
CtorFinish ==
    /\ pc = "ctor_finish"
    /\ self' = [self EXCEPT !.t = Num(0),
                            !.cooling_phase = args.cooling_phase,
                            !.dt = QMul(args.dt_t_scale, t_scale(self))]
    /\ particles' = <<>>
    /\ n_max' = MaxQ(get_density(self), Cells(self.Nxy))
    /\ pc' = "sampling"
    /\ UNCHANGED <<args, call, hist>>

\* An acceptance test that is strict: u*n_max < n[ix, iy].
accepts_strict(n, c, u) == QLt(QMul(u, n_max), n[c])

\* One turn of the loop of tracer_part_create: a uniform cell (ix, iy) and a
\* uniform u in [0, 1); the cell is kept if u*n_max <= n[ix, iy].
accepts(n, c, u) == QLe(QMul(u, n_max), n[c])

TracerDraw(c, u) ==
    /\ pc = "sampling"
    /\ c \in Cells(self.Nxy)
    /\ Len(particles) < self.N_tracer_particles
    /\ particles' = IF accepts(get_density(self), c, u)
                    THEN Append(particles, Cx(self.xy[1][c[1]], self.xy[2][c[2]]))
                    ELSE particles
    /\ UNCHANGED <<self, args, pc, call, n_max, hist>>

\* The return of tracer_part_create, and of the constructor.
TracerReturn ==
    /\ pc = "sampling"
    /\ Len(particles) >= self.N_tracer_particles
    /\ self' = [self EXCEPT !._par_pos = particles, !.has_par_pos = TRUE]
    /\ pc' = "idle"
    /\ UNCHANGED <<args, call, particles, n_max, hist>>

\* The targets the model steers to: the finger, at rest at the origin when
\* constructed, is kept on one axis, where abs(pot_v) is exact.
on_axis(s, z) ==
    \/ z[1] = Num(0) /\ s.pot_z[1] = Num(0) /\ s.pot_v[1] = Num(0)
    \/ z[2] = Num(0) /\ s.pot_z[2] = Num(0) /\ s.pot_v[2] = Num(0)

\* set_xy0
SetXY0(x0, y0) ==
    /\ pc = "idle"
    /\ hist.calls < MaxCalls
    /\ on_axis(self, Cx(x0, y0))
    /\ self' = [self EXCEPT !._z_finger = Cx(x0, y0)]
    /\ hist' = [hist EXCEPT !.steady = @ /\ (hist.calls = 0 \/ Cx(x0, y0) = self._z_finger)]
    /\ UNCHANGED <<args, pc, call, particles, n_max>>

Next ==
    \/ CoolingCall
    \/ \E N \in 0 .. MaxN : StepCall(N)
    \/ SubStep
    \/ StepReturn
    \/ CtorFinish
    \/ \E c \in Cells(self.Nxy), u \in Uniforms : TracerDraw(c, u)
    \/ TracerReturn
    \/ \E z \in Targets : SetXY0(z[1], z[2])

Spec == Init /\ [][Next]_vars

(***************************************************************************)
(* tracer_part_create on its own: called (line 162) on an engine whose     *)
(* density array is any array of finite, non-negative values, and whose    *)
(* random draws are fair.                                                  *)
(***************************************************************************)
Amplitudes == {<<0, 0>>, <<1, 0>>, <<1, 1>>}    \* data: densities 0, n0, 2*n0

InitTracer ==
    \E Nxy \in Shapes, nt \in 0 .. MaxTracers :
      \E a \in [Cells(Nxy) -> Amplitudes] :
        /\ self = [construct(Nxy, Fixed.dx, Fixed.healing_length, Fixed.r0,
                             Fixed.V0_mu, Fixed.dt_t_scale, FALSE, nt)
                       EXCEPT !.data = [a |-> a, r |-> @.r],
                              !.t = Num(0),
                              !.cooling_phase = Cx(Num(1), Num(0))]
        /\ args = [cooling_phase |-> Cx(Num(1), Num(0)), cooling_steps |-> 0,
                   dt_t_scale |-> Fixed.dt_t_scale]
        /\ pc = "sampling"
        /\ call = [N |-> 0, n |-> 0, ctor |-> TRUE]
        /\ particles = <<>>
        /\ n_max = MaxQ(get_density(self), Cells(Nxy))
        /\ hist = [calls |-> 0, nsub |-> 0, ncool |-> 0, entry_t |-> Num(t_cooling),
                   pass |-> NoPass, steady |-> TRUE,
                   base |-> construct(Nxy, Fixed.dx, Fixed.healing_length, Fixed.r0,
                                      Fixed.V0_mu, Fixed.dt_t_scale, FALSE, nt)]

NextTracer ==
    \/ \E c \in Cells(self.Nxy), u \in Uniforms : TracerDraw(c, u)
    \/ TracerReturn

\* Every outcome (cell, uniform draw) of the random generator keeps coming.
SpecTracer ==
    /\ InitTracer /\ [][NextTracer]_vars
    /\ \A c \in Cells(<<2, 2>>), u \in Uniforms : WF_vars(TracerDraw(c, u))
    /\ WF_vars(TracerReturn)


(***************************************************************************)
(* Properties.                                                             *)
(***************************************************************************)
\* The engine is constructed and between step calls, or inside one of them.
in_step == pc = "loop" /\ ~call.ctor
in_ctor == pc \in {"ctor", "ctor_finish"} \/ (pc = "loop" /\ call.ctor)

\* C1 (mass conservation): after construction and after any sequence of
\* step(N) calls, the sum over the grid of |data|^2 equals the particle
\* number _N recorded at construction, for every cooling_phase.
C1_MassConserved ==
    pc = "idle" => total(get_density(self)) = self._N

\* z lies in the periodic box: -L/2 <= z < L/2 on each axis.
InBox(s, z) ==
    /\ QLe(QNeg(QDiv(s.Lxy[1], Num(2))), z[1]) /\ QLt(z[1], QDiv(s.Lxy[1], Num(2)))
    /\ QLe(QNeg(QDiv(s.Lxy[2], Num(2))), z[2]) /\ QLt(z[2], QDiv(s.Lxy[2], Num(2)))

\* C2 (periodicity): after construction and after every sub-step, whatever
\* target was set, pot_z lies in the box on both axes, and the pot_z that
\* get_Vext was evaluated with in the last pass was a wrapped one.
C2_Periodicity ==
    /\ InBox(self, self.pot_z)
    /\ hist.pass.ran => InBox(self, hist.pass.vext_z)

\* A pass after construction whose target and whose advanced position both
\* lay outside the box.
C2_Witness ==
    /\ pc = "idle" /\ hist.nsub >= 2
    /\ ~InBox(self, self._z_finger)
    /\ ~InBox(self, hist.pass.z_raw)

\* v and w point the same way.
SameDirection(v, w) ==
    /\ QMul(v[1], w[2]) = QMul(v[2], w[1])
    /\ QLe(Num(0), QAdd(QMul(v[1], w[1]), QMul(v[2], w[2])))

\* C3 (velocity clamp): at the end of every sub-step |pot_v| <= v_max; a raw
\* velocity above the bound is rescaled to magnitude v_max along its own
\* direction, without a division by zero; one within the bound is unchanged.
C3_VelocityClamp ==
    hist.pass.ran =>
        /\ QLe(CAbs(self.pot_v), hist.pass.v_max)
        /\ IF QLt(hist.pass.v_max, CAbs(hist.pass.v_raw))
           THEN /\ CAbs(hist.pass.v_raw) # Num(0)
                /\ CAbs(self.pot_v) = hist.pass.v_max
                /\ SameDirection(self.pot_v, hist.pass.v_raw)
           ELSE self.pot_v = hist.pass.v_raw

\* A pass that clamped a velocity, to a bound that is not 0.
C3_Witness ==
    /\ hist.pass.ran
    /\ QLt(hist.pass.v_max, CAbs(hist.pass.v_raw))
    /\ QLt(Num(0), hist.pass.v_max)
    /\ self.pot_v # hist.pass.v_raw

\* C4 (nearest-cell lookup): get_inds returns, for every tracer position and
\* grid shape, ix in [0, Nx) and iy in [0, Ny), each the nearest grid index
\* on its own axis modulo that axis's own size.
C4_NearestCell ==
    hist.pass.ran =>
        \A p \in DOMAIN hist.pass.inds :
            hist.pass.pos[p] # NaN =>
                /\ hist.pass.inds[p][1] \in 0 .. self.Nxy[1] - 1
                /\ hist.pass.inds[p][2] \in 0 .. self.Nxy[2] - 1
                /\ hist.pass.inds[p][1] =
                       QRound(QMul(QDiv(QAdd(hist.pass.pos[p][1], QDiv(self.Lxy[1], Num(2))),
                                        self.Lxy[1]), Num(self.Nxy[1]))) % self.Nxy[1]
                /\ hist.pass.inds[p][2] =
                       QRound(QMul(QDiv(QAdd(hist.pass.pos[p][2], QDiv(self.Lxy[2], Num(2))),
                                        self.Lxy[2]), Num(self.Nxy[2]))) % self.Nxy[2]

\* C5 (back-to-back composition): with dt, cooling_phase and the target
\* unchanged, step(a) followed by step(b) leaves the object (wavefunction,
\* finger, tracers, clock) that a single step(a+b) leaves: for the calls
\* the run has made since its first one, and for any two calls made on an
\* engine just constructed.
C5_Composition ==
    pc = "idle" =>
        /\ (hist.calls >= 2 /\ hist.steady) => self = step(hist.base, hist.nsub)
        /\ hist.calls = 0 =>
               \A a \in 0 .. MaxN, b \in 0 .. MaxN :
                   step(step(self, a), b) = step(self, a + b)

\* Two calls with the same target made 2 or more passes, the second call
\* at least one, and moved the object.
C5_Witness ==
    /\ pc = "idle" /\ hist.calls >= 2 /\ hist.steady
    /\ hist.nsub >= 2 /\ call.N >= 1 /\ call.N < hist.nsub
    /\ self.data # hist.base.data

\* C6 (tracer count): after construction the tracer array has exactly
\* N_tracer_particles entries; a step changes the value of each entry in
\* its place and never adds or removes one.
C6_TracerCount ==
    /\ [](pc = "idle" \/ in_step =>
             DOMAIN self._par_pos = 1 .. self.N_tracer_particles)
    /\ [][pc = "idle" \/ in_step =>
             /\ DOMAIN self'._par_pos = DOMAIN self._par_pos
             /\ \A p \in DOMAIN self._par_pos :
                    \/ self'._par_pos[p] = self._par_pos[p]
                    \/ /\ in_step /\ call.n < call.N
                       /\ self'._par_pos[p] =
                              CAdd(self._par_pos[p],
                                   CScale(self.dt, self'.v_trace[hist'.pass.inds[p]]))]_vars

\* Passes have moved the MaxTracers tracers of an engine.
C6_Witness ==
    /\ pc = "idle" /\ hist.nsub >= 2
    /\ self.N_tracer_particles = MaxTracers
    /\ \E p \in DOMAIN self._par_pos : self._par_pos[p] # hist.base._par_pos[p]

\* C7 (frame): after construction no step call changes the values of xy,
\* kxy, K, _N or dt.
C7_Frame ==
    [][pc = "idle" \/ in_step =>
          /\ self'.xy = self.xy
          /\ self'.kxy = self.kxy
          /\ self'.K = self.K
          /\ self'._N = self._N
          /\ self'.dt = self.dt]_vars

\* A step call has run update_tracer_velocity and the propagators.
C7_Witness ==
    /\ pc = "idle" /\ hist.nsub >= 1 /\ self.has_v_trace
    /\ self.data # hist.base.data

\* C8 (clock): construction ends with t = 0; inside the loop of a step call
\* the clock is dt/2 ahead of dt times the passes made since construction;
\* the call returns with t exactly N*dt above its value at entry, so that
\* between calls t never decreases and is dt times the passes made.
C8_Clock ==
    /\ pc = "sampling" => self.t = Num(0)
    /\ pc = "idle" =>
           /\ self.t = QMul(self.dt, Num(hist.nsub))
           /\ hist.calls > 0 =>
                  /\ self.t = QAdd(hist.entry_t, QMul(Num(call.N), self.dt))
                  /\ QLe(hist.entry_t, self.t)
    /\ in_step =>
           self.t = QAdd(QMul(self.dt, Num(hist.nsub)), QDiv(self.dt, Num(2)))

\* Two calls have returned, the last one after passes of its own.
C8_Witness ==
    /\ pc = "idle" /\ hist.calls = 2
    /\ call.N >= 1 /\ hist.nsub > call.N

\* C9 (mode switching): the cooling_steps passes of the construction run
\* with cooling_phase = 1j and a negative clock, before any tracer exists;
\* the construction then sets the cooling_phase argument and t = 0, and no
\* later step call changes cooling_phase.
C9_ModeSwitch ==
    /\ in_ctor =>
           /\ self.cooling_phase = Cx(Num(0), Num(1))
           /\ QLt(self.t, Num(0))
           /\ ~self.has_par_pos /\ particles = <<>>
           /\ hist.ncool <= args.cooling_steps
    /\ ~in_ctor =>
           /\ self.cooling_phase = args.cooling_phase
           /\ hist.ncool = args.cooling_steps
    /\ pc = "ctor_finish" => hist.ncool = args.cooling_steps
    /\ pc = "sampling" => self.t = Num(0)

\* An engine cooled for MaxCooling passes and given a real cooling_phase
\* has made passes after its construction.
C9_Witness ==
    /\ pc = "idle" /\ hist.ncool = MaxCooling /\ MaxCooling > 0
    /\ hist.nsub >= 1
    /\ self.cooling_phase = Cx(Num(1), Num(0))

\* C10 (termination of tracer sampling): for every density array of finite,
\* non-negative values and every N_tracer_particles >= 0 the sampling loop
\* ends, under fair draws, and returns exactly N_tracer_particles positions,
\* each the coordinate x[ix] + i*y[iy] of a grid cell.
C10_SamplingTerminates ==
    /\ <>(pc = "idle")
    /\ [](pc = "idle" =>
             /\ Len(self._par_pos) = self.N_tracer_particles
             /\ \A p \in 1 .. Len(self._par_pos) :
                    \E c \in Cells(self.Nxy) :
                        self._par_pos[p] = Cx(self.xy[1][c[1]], self.xy[2][c[2]]))

\* MaxTracers positions were sampled from a density that is 0 everywhere.
C10_Witness ==
    /\ pc = "idle" /\ self.N_tracer_particles = MaxTracers /\ MaxTracers > 0
    /\ Len(self._par_pos) = MaxTracers
    /\ \A c \in Cells(self.Nxy) : get_density(self)[c] = Num(0)

====
